---- MODULE Spec2Model ----
(***************************************************************************)
(* chrome-render: ChromeRender.render (src/index.js).                      *)
(*                                                                         *)
(* One render call is a Promise whose executor is an async function.  The  *)
(* executor validates the url, awaits a tab of the pool, registers the     *)
(* listeners, issues the setup commands and awaits Page.navigate.  The     *)
(* listeners, the timer and the document read settle the promise; the      *)
(* .then/.catch handlers chained on it release the tab.                    *)
(*                                                                         *)
(* JavaScript runs one task at a time: each action below is one task (a    *)
(* call of render, the continuation of an await, a listener, a timer       *)
(* callback) or one microtask (a promise handler).  Tasks never start      *)
(* while a promise handler is still queued.                                *)
(***************************************************************************)
EXTENDS Integers, Sequences, FiniteSets, TLC

\* ------------------------------------------------------------------ bounds
NumCalls == 2      \* render calls issued against one ChromeRender
MaxEvents == 3     \* browser events delivered to listeners, in total
MaxTab == 1        \* `maxTab` handed to ChromePoll.new (index.js:26-31)

Calls == 1..NumCalls
\* the pool's tabs, by tabId
Tabs == {"tab" \o ToString(i) : i \in 1..MaxTab}

\* ------------------------------------------------------- values and inputs
Undefined == "undefined"
Pending == [state |-> "pending", value |-> Undefined]

ERR_REQUIRE_URL == "url param is required"
ERR_RENDER_TIMEOUT == "chrome-render timeout"
ERR_NETWORK_LOADING_FAILED == "network loading failed"
\* errors raised by the platform or the collaborators, not by index.js
TypeError == "TypeError"
SyntaxError == "SyntaxError"
ProtocolError == "protocol error"
PoolError == "pool error"

OuterHTML == "<html>"

\* `url` of a request: absent, empty, or a page address
Urls == {Undefined, "", "http://qq.com"}

\* `ready` of a request: absent or a string
ReadyFlags == {Undefined, "_ready_flag"}

\* `script` of a request
Scripts == {Undefined, "window.x = 1"}

\* `cookies` of a request: absent, an object, or a string.  A string is
\* described by what JSON.parse makes of it: the serialisation of an
\* object, the text "null", or text that is no JSON at all.
CookieA == <<[name |-> "token", value |-> "token value"]>>
CookieAB == <<[name |-> "token", value |-> "t"], [name |-> "sid", value |-> "s"]>>
CookieInputs ==
    { [type |-> "undefined", text |-> "", pairs |-> <<>>],
      [type |-> "object", text |-> "", pairs |-> CookieA],
      [type |-> "string", text |-> "json-object", pairs |-> CookieAB],
      [type |-> "string", text |-> "json-null", pairs |-> <<>>],
      [type |-> "string", text |-> "not-json", pairs |-> <<>>] }

\* `headers` of a request: objects over a few keys
PackageVersion == "package.json version"
NoHeaders == [k \in {} |-> ""]
HeaderInputs ==
    { NoHeaders,
      [k \in {"referrer"} |-> "http://google.com"],
      [k \in {"x-chrome-render"} |-> "spoofed"] }

Requests ==
    [ cookies : CookieInputs, headers : HeaderInputs,
      ready : ReadyFlags, script : Scripts ]

\* console-api-called events: a type and the logged values
ConsoleTypes == {"log", "error"}
ConsoleValues == {"_ready_flag", "other"}
ConsoleArgs ==
    {<<>>} \cup {<<v>> : v \in ConsoleValues}
           \cup {<<v, w>> : v \in ConsoleValues, w \in ConsoleValues}

\* request ids carried by request-will-be-sent and loading-failed events
RequestIds == {"r1", "r2"}

\* ------------------------------------------------------------------- state
VARIABLES
    pc,            \* where each call's executor stands
    url,           \* the url of the call
    ready,         \* the `ready` captured by the console listener
    hasFailed,     \* `hasFailed` of the call
    promise,       \* the promise built at index.js:50
    outcome,       \* the promise render() returns to its caller
    client,        \* `client`: the tab the call holds, or undefined
    requestId,     \* `requestId` of the call
    firstRequestId,\* the id of the first request-will-be-sent event seen
    timer,         \* the setTimeout of the call: "none", "armed", "fired"
    listeners,     \* event subscriptions the call has registered
    docReads,      \* DOM.getDocument calls awaiting their answer
    htmlReads,     \* DOM.getOuterHTML calls awaiting their answer
    firstSignal,   \* which of readiness / failure / timeout came first
    releases,      \* chromePoll.release calls made for the call
    lateReads,     \* a document read was started after the tab was released
    seen,          \* readiness events delivered to the call so far
    busy,          \* tabs the pool has handed out and not got back
    nEvents,       \* browser events delivered so far
    issued         \* calls made on the tab's client by the latest task

vars == << pc, url, ready, hasFailed, promise, outcome, client, requestId,
           firstRequestId, timer, listeners, docReads, htmlReads, firstSignal,
           releases, lateReads, seen, busy, nEvents, issued >>

\* ------------------------------------------------------------ the platform
\* resolve / reject of a promise: only the first call has an effect
RejectOverwrites(p, e) == [state |-> "rejected", value |-> e]

Resolve(p, v) ==
    IF p.state = "pending" THEN [state |-> "fulfilled", value |-> v] ELSE p

Reject(p, e) ==
    IF p.state = "pending" THEN [state |-> "rejected", value |-> e] ELSE p

\* a handler of .then/.catch is queued: it runs before any other task
HandlerQueued ==
    \E c \in Calls : promise[c].state # "pending" /\ outcome[c].state = "pending"

\* Object.assign({}, target, source) on objects given as functions
ObjectAssign(target, source) ==
    [k \in (DOMAIN target) \cup (DOMAIN source) |->
        IF k \in DOMAIN source THEN source[k] ELSE target[k]]

\* obj[key], undefined when the key is missing
Get(obj, key) == IF key \in DOMAIN obj THEN obj[key] ELSE Undefined

Cmd(c, method, arg) == [call |-> c, method |-> method, arg |-> arg]
NoArg == [k \in {} |-> ""]

\* --------------------------------------------------- pieces of the executor
\* index.js:79-89: what the cookie block throws, "" when it completes
CookiesThrow(cookies) ==
    IF cookies.type = "string"
    THEN CASE cookies.text = "not-json" -> SyntaxError
           [] cookies.text = "json-null" -> TypeError
           [] OTHER -> ""
    ELSE ""

\* index.js:79-89: the Network.setCookie calls the cookie block makes
CookieCmds(c, u, cookies) ==
    IF cookies.type = "string" /\ CookiesThrow(cookies) = ""
    THEN [i \in 1..Len(cookies.pairs) |->
            Cmd(c, "Network.setCookie",
                [url |-> u, name |-> cookies.pairs[i].name,
                 value |-> cookies.pairs[i].value])]
    ELSE <<>>

\* index.js:91-106: the readiness listener and the timer
ReadyCmds(c, r) ==
    IF r # Undefined
    THEN << Cmd(c, "Runtime.consoleAPICalled", NoArg), Cmd(c, "setTimeout", NoArg) >>
    ELSE << Cmd(c, "Page.domContentEventFired", NoArg) >>

ReadyListeners(r) ==
    IF r # Undefined THEN {"Runtime.consoleAPICalled"}
    ELSE {"Page.domContentEventFired"}

\* index.js:108-118: the failure detector
FailureCmds(c) ==
    << Cmd(c, "Network.requestWillBeSent", NoArg),
       Cmd(c, "Network.loadingFailed", NoArg) >>

\* index.js:120-125
ScriptCmds(c, script) ==
    IF script # Undefined
    THEN << Cmd(c, "Page.addScriptToEvaluateOnLoad", [scriptSource |-> script]) >>
    ELSE <<>>

\* index.js:127-132
MergedHeaders(headers) ==
    ObjectAssign([k \in {"x-chrome-render"} |-> PackageVersion], headers)

HeaderCmds(c, headers) ==
    << Cmd(c, "Network.setExtraHTTPHeaders", [headers |-> MergedHeaders(headers)]) >>

\* index.js:134-138
NavigateCmds(c, u, headers) ==
    << Cmd(c, "Page.navigate", [url |-> u, referrer |-> Get(headers, "referrer")]) >>

\* index.js:79-138: every call the executor makes on the tab's client, in
\* the order of the statements
SetupCmdsNavigateEarly(c, u, req) ==
    CookieCmds(c, u, req.cookies)
    \o ReadyCmds(c, req.ready)
    \o NavigateCmds(c, u, req.headers)
    \o FailureCmds(c)
    \o ScriptCmds(c, req.script)
    \o HeaderCmds(c, req.headers)

SetupCmds(c, u, req) ==
    CookieCmds(c, u, req.cookies)
    \o ReadyCmds(c, req.ready)
    \o FailureCmds(c)
    \o ScriptCmds(c, req.script)
    \o HeaderCmds(c, req.headers)
    \o NavigateCmds(c, u, req.headers)

\* the tab pool (chrome-pool): require() answers with a tab that is not
\* handed out, and waits while there is none; release(tabId) takes it back
PoolAvailable == Tabs \ busy

PoolRelease(t) == busy \ {t}

\* index.js:94: the console event that means "ready"
IsReadySignalAnyArity(type, args, r) ==
    type = "log" /\ Len(args) >= 1 /\ args[1] = r

IsReadySignal(type, args, r) ==
    type = "log" /\ Len(args) = 1 /\ args[1] = r

\* index.js:114: the loading-failed event that means "navigation failed"
IsNavigationFailure(id, captured) == id = captured

\* --------------------------------------------------------------------- Init
Init ==
    /\ pc = [c \in Calls |-> "idle"]
    /\ url = [c \in Calls |-> Undefined]
    /\ ready = [c \in Calls |-> Undefined]
    /\ hasFailed = [c \in Calls |-> FALSE]
    /\ promise = [c \in Calls |-> Pending]
    /\ outcome = [c \in Calls |-> Pending]
    /\ client = [c \in Calls |-> Undefined]
    /\ requestId = [c \in Calls |-> Undefined]
    /\ firstRequestId = [c \in Calls |-> Undefined]
    /\ timer = [c \in Calls |-> "none"]
    /\ listeners = [c \in Calls |-> {}]
    /\ docReads = [c \in Calls |-> 0]
    /\ htmlReads = [c \in Calls |-> 0]
    /\ firstSignal = [c \in Calls |-> "none"]
    /\ releases = [c \in Calls |-> 0]
    /\ lateReads = [c \in Calls |-> FALSE]
    /\ seen = [c \in Calls |-> {}]
    /\ busy = {}
    /\ nEvents = 0
    /\ issued = <<>>

\* ------------------------------------------------------------------ actions
\* index.js:48-63: render(params) is called; the executor runs up to the
\* await of the pool
Render(c, u) ==
    /\ pc[c] = "idle"
    /\ IF u = Undefined \/ u = ""
       THEN /\ hasFailed' = [hasFailed EXCEPT ![c] = TRUE]
            /\ promise' = [promise EXCEPT ![c] = Reject(@, ERR_REQUIRE_URL)]
            /\ pc' = [pc EXCEPT ![c] = "returned"]
       ELSE /\ pc' = [pc EXCEPT ![c] = "require"]
            /\ UNCHANGED << hasFailed, promise >>
    /\ url' = [url EXCEPT ![c] = u]
    /\ issued' = <<>>
    /\ UNCHANGED << ready, outcome, client, requestId, firstRequestId, timer,
                    listeners, docReads, htmlReads, firstSignal, releases,
                    lateReads, seen, busy, nEvents >>

\* index.js:63-138: the pool hands out tab t and the executor runs on to the
\* await of Page.navigate, or to the statement that throws
Require(c, t, req) ==
    /\ pc[c] = "require"
    /\ t \in PoolAvailable
    /\ busy' = busy \cup {t}
    /\ client' = [client EXCEPT ![c] = t]
    /\ ready' = [ready EXCEPT ![c] = req.ready]
    /\ IF CookiesThrow(req.cookies) # ""
       THEN /\ pc' = [pc EXCEPT ![c] = "threw"]
            /\ issued' = <<>>
            /\ UNCHANGED << timer, listeners >>
       ELSE /\ pc' = [pc EXCEPT ![c] = "navigate"]
            /\ timer' = [timer EXCEPT ![c] =
                            IF req.ready # Undefined THEN "armed" ELSE "none"]
            /\ listeners' = [listeners EXCEPT ![c] =
                                ReadyListeners(req.ready)
                                \cup {"Network.requestWillBeSent", "Network.loadingFailed"}]
            /\ issued' = SetupCmds(c, url[c], req)
    /\ UNCHANGED << url, hasFailed, promise, outcome, requestId, firstRequestId,
                    docReads, htmlReads, firstSignal, releases, lateReads,
                    seen, nEvents >>

\* index.js:63: the pool fails to open a tab; the executor throws
RequireFails(c) ==
    /\ pc[c] = "require"
    /\ pc' = [pc EXCEPT ![c] = "threw"]
    /\ issued' = <<>>
    /\ UNCHANGED << url, ready, hasFailed, promise, outcome, client, requestId,
                    firstRequestId, timer, listeners, docReads, htmlReads,
                    firstSignal, releases, lateReads, seen, busy, nEvents >>

\* index.js:135-139: Page.navigate answers; the executor returns or throws
NavigateReturnsThenReads(c, ok) ==
    /\ pc[c] = "navigate"
    /\ ~HandlerQueued
    /\ pc' = [pc EXCEPT ![c] = IF ok THEN "returned" ELSE "threw"]
    /\ docReads' = [docReads EXCEPT ![c] = IF ok THEN @ + 1 ELSE @]
    /\ issued' = IF ok THEN << Cmd(c, "DOM.getDocument", NoArg) >> ELSE <<>>
    /\ UNCHANGED << url, ready, hasFailed, promise, outcome, client, requestId,
                    firstRequestId, timer, listeners, htmlReads,
                    firstSignal, releases, lateReads, seen, busy, nEvents >>

NavigateReturns(c, ok) ==
    /\ pc[c] = "navigate"
    /\ ~HandlerQueued
    /\ pc' = [pc EXCEPT ![c] = IF ok THEN "returned" ELSE "threw"]
    /\ issued' = <<>>
    /\ UNCHANGED << url, ready, hasFailed, promise, outcome, client, requestId,
                    firstRequestId, timer, listeners, docReads, htmlReads,
                    firstSignal, releases, lateReads, seen, busy, nEvents >>

\* the first of readiness / failure / timeout to reach the call
NoteSignal(c, kind) ==
    firstSignal' = [firstSignal EXCEPT ![c] = IF @ = "none" THEN kind ELSE @]

\* index.js:67-77, up to the first await: resolveHTML()
ResolveHTML(c) ==
    IF hasFailed[c] = FALSE
    THEN /\ docReads' = [docReads EXCEPT ![c] = @ + 1]
         /\ lateReads' = [lateReads EXCEPT ![c] = @ \/ releases[c] > 0]
         /\ issued' = << Cmd(c, "DOM.getDocument", NoArg) >>
    ELSE /\ issued' = <<>>
         /\ UNCHANGED << docReads, lateReads >>

\* the readiness strategy the call has armed
DomMode(c) == "Page.domContentEventFired" \in listeners[c]
SignalMode(c) == "Runtime.consoleAPICalled" \in listeners[c]

\* the tab of call c has begun to load the page: events reach its listeners
Loading(c) == listeners[c] # {} /\ nEvents < MaxEvents /\ ~HandlerQueued

\* index.js:105: the browser fires dom-content-loaded on the tab
DomContentEventFired(c) ==
    /\ Loading(c)
    /\ nEvents' = nEvents + 1
    /\ seen' = [seen EXCEPT ![c] = @ \cup {"domContentEventFired"}]
    /\ IF "Page.domContentEventFired" \in listeners[c]
       THEN ResolveHTML(c) /\ NoteSignal(c, "readiness")
       ELSE issued' = <<>> /\ UNCHANGED << docReads, lateReads, firstSignal >>
    /\ UNCHANGED << pc, url, ready, hasFailed, promise, outcome, client,
                    requestId, firstRequestId, timer, listeners, htmlReads,
                    releases, busy >>

\* index.js:92-98: the page calls a console method
ConsoleAPICalled(c, type, args) ==
    /\ Loading(c)
    /\ nEvents' = nEvents + 1
    /\ IF "Runtime.consoleAPICalled" \in listeners[c] /\ IsReadySignal(type, args, ready[c])
       THEN /\ ResolveHTML(c)
            /\ NoteSignal(c, "readiness")
            /\ seen' = [seen EXCEPT ![c] = @ \cup {"readySignal"}]
       ELSE /\ issued' = <<>>
            /\ UNCHANGED << docReads, lateReads, firstSignal, seen >>
    /\ UNCHANGED << pc, url, ready, hasFailed, promise, outcome, client,
                    requestId, firstRequestId, timer, listeners, htmlReads,
                    releases, busy >>

\* index.js:110-112: the tab sends a request
RequestWillBeSent(c, id) ==
    /\ Loading(c)
    /\ nEvents' = nEvents + 1
    /\ requestId' = [requestId EXCEPT ![c] = id]
    /\ firstRequestId' = [firstRequestId EXCEPT ![c] = IF @ = Undefined THEN id ELSE @]
    /\ issued' = <<>>
    /\ UNCHANGED << pc, url, ready, hasFailed, promise, outcome, client, timer,
                    listeners, docReads, htmlReads, firstSignal, releases,
                    lateReads, seen, busy >>

\* index.js:113-118: a request of the tab fails to load
LoadingFailed(c, id) ==
    /\ Loading(c)
    /\ nEvents' = nEvents + 1
    /\ IF IsNavigationFailure(id, requestId[c])
       THEN /\ hasFailed' = [hasFailed EXCEPT ![c] = TRUE]
            /\ promise' = [promise EXCEPT ![c] = Reject(@, ERR_NETWORK_LOADING_FAILED)]
            /\ NoteSignal(c, "failure")
       ELSE UNCHANGED << hasFailed, promise, firstSignal >>
    /\ issued' = <<>>
    /\ UNCHANGED << pc, url, ready, outcome, client, requestId, firstRequestId,
                    timer, listeners, docReads, htmlReads, releases, lateReads,
                    seen, busy >>

\* index.js:100-103: the render timeout elapses
TimerFiresReleasesTab(c) ==
    /\ timer[c] = "armed"
    /\ ~HandlerQueued
    /\ timer' = [timer EXCEPT ![c] = "fired"]
    /\ hasFailed' = [hasFailed EXCEPT ![c] = TRUE]
    /\ promise' = [promise EXCEPT ![c] = Reject(@, ERR_RENDER_TIMEOUT)]
    /\ firstSignal' = [firstSignal EXCEPT ![c] = IF @ = "none" THEN "timeout" ELSE @]
    /\ releases' = [releases EXCEPT ![c] = @ + 1]
    /\ busy' = PoolRelease(client[c])
    /\ issued' = <<>>
    /\ UNCHANGED << pc, url, ready, outcome, client, requestId, firstRequestId,
                    listeners, docReads, htmlReads, lateReads, seen, nEvents >>

TimerFiresNoReject(c) ==
    /\ timer[c] = "armed"
    /\ ~HandlerQueued
    /\ timer' = [timer EXCEPT ![c] = "fired"]
    /\ hasFailed' = [hasFailed EXCEPT ![c] = TRUE]
    /\ firstSignal' = [firstSignal EXCEPT ![c] = IF @ = "none" THEN "timeout" ELSE @]
    /\ issued' = <<>>
    /\ UNCHANGED << pc, url, ready, promise, outcome, client, requestId,
                    firstRequestId, listeners, docReads, htmlReads, releases,
                    lateReads, seen, busy, nEvents >>

TimerFires(c) ==
    /\ timer[c] = "armed"
    /\ ~HandlerQueued
    /\ timer' = [timer EXCEPT ![c] = "fired"]
    /\ hasFailed' = [hasFailed EXCEPT ![c] = TRUE]
    /\ promise' = [promise EXCEPT ![c] = Reject(@, ERR_RENDER_TIMEOUT)]
    /\ NoteSignal(c, "timeout")
    /\ issued' = <<>>
    /\ UNCHANGED << pc, url, ready, outcome, client, requestId, firstRequestId,
                    listeners, docReads, htmlReads, releases, lateReads, seen,
                    busy, nEvents >>

\* index.js:70-71,73-75: DOM.getDocument answers
GetDocumentReturnsSwallows(c, ok) ==
    /\ docReads[c] > 0
    /\ ~HandlerQueued
    /\ docReads' = [docReads EXCEPT ![c] = @ - 1]
    /\ htmlReads' = [htmlReads EXCEPT ![c] = IF ok THEN @ + 1 ELSE @]
    /\ issued' = IF ok THEN << Cmd(c, "DOM.getOuterHTML", NoArg) >> ELSE <<>>
    /\ UNCHANGED << pc, url, ready, hasFailed, promise, outcome, client,
                    requestId, firstRequestId, timer, listeners, firstSignal,
                    releases, lateReads, seen, busy, nEvents >>

GetDocumentReturns(c, ok) ==
    /\ docReads[c] > 0
    /\ ~HandlerQueued
    /\ docReads' = [docReads EXCEPT ![c] = @ - 1]
    /\ IF ok
       THEN /\ htmlReads' = [htmlReads EXCEPT ![c] = @ + 1]
            /\ issued' = << Cmd(c, "DOM.getOuterHTML", NoArg) >>
            /\ UNCHANGED promise
       ELSE /\ promise' = [promise EXCEPT ![c] = Reject(@, ProtocolError)]
            /\ issued' = <<>>
            /\ UNCHANGED htmlReads
    /\ UNCHANGED << pc, url, ready, hasFailed, outcome, client, requestId,
                    firstRequestId, timer, listeners, firstSignal, releases,
                    lateReads, seen, busy, nEvents >>

\* index.js:71-75: DOM.getOuterHTML answers
GetOuterHTMLReturns(c, ok) ==
    /\ htmlReads[c] > 0
    /\ ~HandlerQueued
    /\ htmlReads' = [htmlReads EXCEPT ![c] = @ - 1]
    /\ promise' = [promise EXCEPT ![c] =
                      IF ok THEN Resolve(@, OuterHTML) ELSE Reject(@, ProtocolError)]
    /\ issued' = <<>>
    /\ UNCHANGED << pc, url, ready, hasFailed, outcome, client, requestId,
                    firstRequestId, timer, listeners, docReads, firstSignal,
                    releases, lateReads, seen, busy, nEvents >>

\* index.js:139-142: the .then handler
ThenHandler(c) ==
    /\ promise[c].state = "fulfilled"
    /\ outcome[c].state = "pending"
    /\ releases' = [releases EXCEPT ![c] = @ + 1]
    /\ busy' = PoolRelease(client[c])
    /\ outcome' = [outcome EXCEPT ![c] = Resolve(@, promise[c].value)]
    /\ issued' = <<>>
    /\ UNCHANGED << pc, url, ready, hasFailed, promise, client, requestId,
                    firstRequestId, timer, listeners, docReads, htmlReads,
                    firstSignal, lateReads, seen, nEvents >>

\* index.js:142-145: the .catch handler; client.tabId throws when no tab
\* was acquired
CatchHandlerNoRelease(c) ==
    /\ promise[c].state = "rejected"
    /\ outcome[c].state = "pending"
    /\ outcome' = [outcome EXCEPT ![c] =
                      Reject(@, IF client[c] = Undefined THEN TypeError
                                ELSE promise[c].value)]
    /\ issued' = <<>>
    /\ UNCHANGED << pc, url, ready, hasFailed, promise, client, requestId,
                    firstRequestId, timer, listeners, docReads, htmlReads,
                    firstSignal, releases, lateReads, seen, busy, nEvents >>

CatchHandler(c) ==
    /\ promise[c].state = "rejected"
    /\ outcome[c].state = "pending"
    /\ IF client[c] = Undefined
       THEN /\ outcome' = [outcome EXCEPT ![c] = Reject(@, TypeError)]
            /\ UNCHANGED << releases, busy >>
       ELSE /\ releases' = [releases EXCEPT ![c] = @ + 1]
            /\ busy' = PoolRelease(client[c])
            /\ outcome' = [outcome EXCEPT ![c] = Reject(@, promise[c].value)]
    /\ issued' = <<>>
    /\ UNCHANGED << pc, url, ready, hasFailed, promise, client, requestId,
                    firstRequestId, timer, listeners, docReads, htmlReads,
                    firstSignal, lateReads, seen, nEvents >>

\* every step one render call can take
Session(c) ==
    \/ \E u \in Urls : Render(c, u)
    \/ \E t \in Tabs, req \in Requests : Require(c, t, req)
    \/ RequireFails(c)
    \/ \E ok \in BOOLEAN : NavigateReturns(c, ok)
    \/ DomContentEventFired(c)
    \/ \E type \in ConsoleTypes, args \in ConsoleArgs : ConsoleAPICalled(c, type, args)
    \/ \E id \in RequestIds : RequestWillBeSent(c, id)
    \/ \E id \in RequestIds : LoadingFailed(c, id)
    \/ TimerFires(c)
    \/ \E ok \in BOOLEAN : GetDocumentReturns(c, ok)
    \/ \E ok \in BOOLEAN : GetOuterHTMLReturns(c, ok)
    \/ ThenHandler(c)
    \/ CatchHandler(c)

Next == \E c \in Calls : Session(c)

\* NumCalls render calls against one pool
Spec == Init /\ [][Next]_vars

\* one render call on its own
FirstCall == CHOOSE c \in Calls : \A d \in Calls : c <= d
SessionSpec == Init /\ [][Session(FirstCall)]_vars

\* the event loop runs every task that is ready: the pool answers, protocol
\* commands are answered, timers fire, promise handlers run.  What the
\* browser's page does (its events) is not promised.
Fairness(c) ==
    /\ WF_vars(\E t \in Tabs, req \in Requests : Require(c, t, req))
    /\ WF_vars(\E ok \in BOOLEAN : NavigateReturns(c, ok))
    /\ WF_vars(TimerFires(c))
    /\ WF_vars(\E ok \in BOOLEAN : GetDocumentReturns(c, ok))
    /\ WF_vars(\E ok \in BOOLEAN : GetOuterHTMLReturns(c, ok))
    /\ WF_vars(ThenHandler(c))
    /\ WF_vars(CatchHandler(c))

FairSessionSpec == SessionSpec /\ Fairness(FirstCall)

\* the page loaded in the tab of call c delivers its readiness event
ReadinessDelivered(c) ==
    \/ DomMode(c) /\ DomContentEventFired(c)
    \/ SignalMode(c) /\ ConsoleAPICalled(c, "log", << ready[c] >>)

\* NumCalls calls, every task that is ready runs, and every page load
\* delivers its readiness event
FairSpec ==
    Spec /\ \A c \in Calls : Fairness(c) /\ WF_vars(ReadinessDelivered(c))

TypeOK ==
    /\ pc \in [Calls -> {"idle", "require", "navigate", "returned", "threw"}]
    /\ \A c \in Calls : releases[c] \in 0..2 /\ docReads[c] \in 0..MaxEvents
    /\ busy \subseteq Tabs
    /\ nEvents \in 0..MaxEvents

\* ------------------------------------------------------------------- claims
Settled(c) == outcome[c].state # "pending"
HoldsTab(c) == client[c] # Undefined
Rejected(e) == [state |-> "rejected", value |-> e]
Fulfilled(v) == [state |-> "fulfilled", value |-> v]

\* C1: the tab acquired for a call is never released more than once, and
\* once the call has settled it has been released exactly once.
C1_TabReleasedExactlyOnce ==
    \A c \in Calls :
        /\ releases[c] <= 1
        /\ (Settled(c) /\ HoldsTab(c)) => releases[c] = 1
        /\ ~HoldsTab(c) => releases[c] = 0

\* a navigation failure settled the call, the timer fired afterwards, and
\* the tab went back once
C1_Witness ==
    \E c \in Calls :
        /\ outcome[c] = Rejected(ERR_NETWORK_LOADING_FAILED)
        /\ timer[c] = "fired"
        /\ releases[c] = 1

\* C2: once a session has resolved or rejected, no later event, timer or
\* answer changes its promise or the outcome the caller sees.
C2_SettledOnce ==
    [][\A c \in Calls :
          /\ promise[c].state # "pending" => promise'[c] = promise[c]
          /\ outcome[c].state # "pending" => outcome'[c] = outcome[c]]_vars

\* resolved, then a second readiness event and the timer arrived
C2_Witness ==
    \E c \in Calls :
        /\ outcome[c] = Fulfilled(OuterHTML)
        /\ lateReads[c]
        /\ timer[c] = "fired"

C4_NavigationFailureRejects ==
    [][\A c \in Calls, id \in RequestIds :
          (LoadingFailed(c, id) /\ id = firstRequestId[c]
             /\ promise[c].state = "pending")
          => promise'[c] = Rejected(ERR_NETWORK_LOADING_FAILED)]_vars

\* C5: the captured id is the id of the first request-sent event and stays
\* so; a loading-failed event with another id never settles the session.
C5_CapturedIdIsFirst ==
    [][\A c \in Calls :
          /\ requestId'[c] = firstRequestId'[c]
          /\ \A id \in RequestIds :
                (LoadingFailed(c, id) /\ id # firstRequestId[c])
                => promise'[c] = promise[c]]_vars

\* C6: in DOM-ready mode the call resolves only after a dom-content-loaded
\* event, with the outer HTML, and the first such event starts the
\* document read that resolves it.
C6_DomReadyResolution ==
    [][\A c \in Calls :
          DomMode(c) =>
            /\ promise'[c].state = "fulfilled" =>
                  /\ "domContentEventFired" \in seen[c]
                  /\ promise'[c] = Fulfilled(OuterHTML)
            /\ docReads'[c] > docReads[c] => DomContentEventFired(c)
            /\ (DomContentEventFired(c) /\ seen[c] = {} /\ ~hasFailed[c])
                  => docReads'[c] = docReads[c] + 1]_vars

\* a DOM-ready call resolved with the document after its first event
C6_Witness ==
    \E c \in Calls :
        /\ DomMode(c)
        /\ outcome[c] = Fulfilled(OuterHTML)
        /\ pc[c] = "returned"
        /\ nEvents = 1

\* C7: in signal-ready mode the call resolves only after a console event of
\* type log with exactly one argument equal to the ready flag; no other
\* console event and no dom-content-loaded event starts a document read.
C7_SignalReadyResolution ==
    [][\A c \in Calls :
          SignalMode(c) =>
            /\ promise'[c].state = "fulfilled" => "readySignal" \in seen[c]
            /\ DomContentEventFired(c) => docReads'[c] = docReads[c]
            /\ \A type \in ConsoleTypes, args \in ConsoleArgs :
                  ConsoleAPICalled(c, type, args) =>
                     /\ "readySignal" \in seen'[c] \ seen[c]
                           => (type = "log" /\ args = << ready[c] >>)
                     /\ docReads'[c] > docReads[c]
                           => (type = "log" /\ args = << ready[c] >>)]_vars

\* a signal-ready call resolved although a dom-content-loaded event and
\* another console event came too
C7_Witness ==
    \E c \in Calls :
        /\ SignalMode(c)
        /\ outcome[c] = Fulfilled(OuterHTML)
        /\ "domContentEventFired" \in seen[c]
        /\ nEvents = 3

\* C8: in signal-ready mode a timer that fires before settlement rejects
\* with RenderTimeout, and every signal-ready call that acquired a tab
\* eventually settles and has its tab released.
C8_SignalCallSettles ==
    /\ [][\A c \in Calls :
             (TimerFires(c) /\ promise[c].state = "pending")
             => promise'[c] = Rejected(ERR_RENDER_TIMEOUT)]_vars
    /\ \A c \in Calls :
          (HoldsTab(c) /\ ready[c] # Undefined) ~> (Settled(c) /\ releases[c] = 1)

\* C9: a call without a url rejects with MissingURL, holds no tab and
\* releases none.
C9_MissingURLRejects ==
    \A c \in Calls :
        (pc[c] # "idle" /\ url[c] \in {Undefined, ""}) =>
            /\ ~HoldsTab(c)
            /\ releases[c] = 0
            /\ Settled(c) => outcome[c] = Rejected(ERR_REQUIRE_URL)

\* C10: when tab acquisition, a setup operation or Page.navigate fails, the
\* call is rejected with that error.
C10_ErrorsSurface ==
    \A c \in Calls :
        pc[c] = "threw" =>
            promise[c] \in {Rejected(e) : e \in {PoolError, SyntaxError, TypeError, ProtocolError}}

\* C11: a document read that fails on an unsettled session rejects it with
\* the read's error, and the tab is then released; on a settled session the
\* failure changes nothing.
C11_ReadFailureRejects ==
    [][\A c \in Calls :
          /\ (GetDocumentReturns(c, FALSE) \/ GetOuterHTMLReturns(c, FALSE)) =>
                /\ promise[c].state = "pending" => promise'[c] = Rejected(ProtocolError)
                /\ promise[c].state # "pending" =>
                      /\ promise'[c] = promise[c]
                      /\ outcome'[c] = outcome[c]
                      /\ releases'[c] = releases[c]
          /\ outcome'[c] = Rejected(ProtocolError) => releases'[c] = 1]_vars

\* getOuterHTML failed on an unsettled session: rejected with the read's
\* error, tab released
C11_Witness ==
    \E c \in Calls :
        /\ outcome[c] = Rejected(ProtocolError)
        /\ releases[c] = 1
        /\ ~hasFailed[c]
        /\ docReads[c] + htmlReads[c] = 0

\* calls that hold a tab they have not released
Outstanding == {c \in Calls : HoldsTab(c) /\ releases[c] = 0}

\* C12: the calls that have acquired a tab and not yet released it are
\* never more than the pool's capacity; each holds a tab of its own that the
\* pool counts as handed out.
C12_OutstandingWithinCapacity ==
    /\ Cardinality(Outstanding) <= MaxTab
    /\ \A c \in Outstanding : client[c] \in busy
    /\ \A c, d \in Outstanding : c # d => client[c] # client[d]

\* every tab of the pool is held while another call waits for one
C12_Witness ==
    \E c, d \in Calls :
        /\ c \in Outstanding
        /\ pc[d] = "require"
        /\ Cardinality(busy) = MaxTab

\* C14: in the task that issues Page.navigate, it is the last call made on
\* the client: the readiness listener, the request-sent and loading-failed
\* listeners and the cookie, script and header calls all come before it;
\* and no browser event reaches a session that has not registered them.
C14_NavigateIssuedLast ==
    /\ \A i \in 1..Len(issued) :
          issued[i].method = "Page.navigate" =>
             /\ i = Len(issued)
             /\ \A m \in {"Network.requestWillBeSent", "Network.loadingFailed",
                          "Network.setExtraHTTPHeaders"} :
                   \E j \in 1..(i - 1) : issued[j].method = m
             /\ \E j \in 1..(i - 1) :
                   issued[j].method \in {"Runtime.consoleAPICalled",
                                         "Page.domContentEventFired"}
             /\ \A j \in 1..Len(issued) :
                   issued[j].method \in {"Network.setCookie",
                                         "Page.addScriptToEvaluateOnLoad"} => j < i
    /\ \A c \in Calls :
          (seen[c] # {} \/ requestId[c] # Undefined \/ firstSignal[c] # "none")
          => {"Network.requestWillBeSent", "Network.loadingFailed"} \subseteq listeners[c]

\* the setup task with cookies and a script has just issued Page.navigate
C14_Witness ==
    /\ Len(issued) = 8
    /\ issued[Len(issued)].method = "Page.navigate"
    /\ issued[1].method = "Network.setCookie"

Completed(c) == Settled(c) /\ releases[c] = 1
PoolFailed(c) == pc[c] = "threw" /\ ~HoldsTab(c)
EventBudgetSpent == nEvents = MaxEvents

\* C13: every call that asks the pool for a tab eventually acquires one,
\* settles and releases it (unless the pool itself fails the call, or the
\* browser events the bound allows are used up).
C13_EveryCallCompletes ==
    \A c \in Calls :
        (pc[c] = "require") ~> (Completed(c) \/ PoolFailed(c) \/ EventBudgetSpent)

\* C15: a cookie string that cannot be read as name/value pairs makes the
\* call reject.
C15_MalformedCookiesReject ==
    [][\A c \in Calls, t \in Tabs, req \in Requests :
          (Require(c, t, req) /\ CookiesThrow(req.cookies) # "")
          => promise'[c].state = "rejected"]_vars

\* the Network.setCookie calls among the calls a task issued
SetCookieArgs(cmds) ==
    {cmds[i].arg : i \in {j \in 1..Len(cmds) : cmds[j].method = "Network.setCookie"}}

\* C16: cookies given as a mapping or as its serialised form lead to one
\* set-cookie call per pair, scoped to the url, issued with the setup.
C16_CookiePerPair ==
    [][\A c \in Calls, t \in Tabs, req \in Requests :
          (Require(c, t, req) /\ CookiesThrow(req.cookies) = "")
          => SetCookieArgs(issued') =
                {[url |-> url[c], name |-> req.cookies.pairs[i].name,
                  value |-> req.cookies.pairs[i].value] :
                     i \in 1..Len(req.cookies.pairs)}]_vars

\* C17: the extra headers sent are the caller's headers plus the reserved
\* header, whose value is always the package version.
C17_ReservedHeaderKept ==
    [][\A c \in Calls, t \in Tabs, req \in Requests :
          (Require(c, t, req) /\ CookiesThrow(req.cookies) = "")
          => \E i \in 1..Len(issued') :
                /\ issued'[i].method = "Network.setExtraHTTPHeaders"
                /\ DOMAIN issued'[i].arg.headers
                      = DOMAIN req.headers \cup {"x-chrome-render"}
                /\ issued'[i].arg.headers["x-chrome-render"] = PackageVersion
                /\ \A k \in DOMAIN req.headers \ {"x-chrome-render"} :
                      issued'[i].arg.headers[k] = req.headers[k]]_vars

\* C18: a timer exists only in signal-ready mode, and no settled session
\* has a timer still armed.
C18_TimerCancelledOnSettlement ==
    \A c \in Calls :
        /\ timer[c] # "none" => SignalMode(c)
        /\ Settled(c) => timer[c] # "armed"

\* C19: no document read is started on a tab after the session released it.
C19_NoReadAfterRelease ==
    \A c \in Calls : ~lateReads[c]

\* C20: release is called only by a call that holds a tab, and the
\* settlement handler never reaches for a tab the call does not hold.
C20_ReleaseOnlyHeldTab ==
    \A c \in Calls :
        /\ releases[c] > 0 => HoldsTab(c)
        /\ Settled(c) => HoldsTab(c)

====
